---- MODULE Spec2Model ----
(***************************************************************************)
(* A model of the Ollama installer (src/main.go, final revision, lines     *)
(* 204-982): the archive extractors, the Unix and Windows PATH updaters    *)
(* and the installer pipeline.                                             *)
(*                                                                         *)
(* A file-system path is a sequence of its components; every path the      *)
(* program builds is absolute, so the root is implicit.  An archive entry  *)
(* name is the sequence obtained by splitting the stored name at "/": it   *)
(* may hold "", "." and ".." components (a leading "" is an absolute       *)
(* name).                                                                  *)
(***************************************************************************)
EXTENDS Naturals, Sequences, FiniteSets, TLC

\* ------------------------------------------------------------------ bounds
MaxEntries == 2

MaxInitLines == 2

MaxRuns == 2

PipeMaxEntries == 1

PipeMaxLines == 0

WinMaxEntries == 2

\* ------------------------------------------------------------- path algebra
HomeDir == <<"home">>

tempDirName == <<"ollama-extract">>

TempDir == HomeDir \o tempDirName

\* filepath.Clean of a rooted path: drops "" and ".", resolves "..", and
\* drops a ".." that would climb above the root.
Clean(p) ==
  LET acc[i \in 0..Len(p)] ==
        IF i = 0 THEN <<>>
        ELSE LET prev == acc[i - 1]
                 c == p[i]
             IN IF c = "" \/ c = "." THEN prev
                ELSE IF c = ".."
                     THEN IF prev = <<>> THEN <<>> ELSE SubSeq(prev, 1, Len(prev) - 1)
                     ELSE Append(prev, c)
  IN acc[Len(p)]

\* filepath.Join(dir, name): the elements joined by the separator, cleaned.
Join(dir, name) == Clean(dir \o name)

\* filepath.Base
Base(p) == IF p = <<>> THEN "/" ELSE p[Len(p)]

\* filepath.Dir
Dir(p) == IF p = <<>> THEN <<>> ELSE SubSeq(p, 1, Len(p) - 1)

\* strings.HasPrefix(path, dir + separator): with the separator appended the
\* string prefix is a proper prefix by whole components.
HasDirPrefix(p, d) == Len(p) > Len(d) /\ SubSeq(p, 1, Len(d)) = d

\* strings.HasSuffix(path, "/bin/ollama")
HasSuffixBinOllama(p) ==
  Len(p) >= 2 /\ p[Len(p) - 1] = "bin" /\ p[Len(p)] = "ollama"

\* A guard that tests the joined name before it is cleaned (the usual
\* zip-slip mistake): used to show that the traversal claim rests on the guard.
GuardUncleaned(tempDir, name) == HasDirPrefix(tempDir \o name, tempDir)

\* The traversal guard of both extractors.
Guard(tempDir, name) == HasDirPrefix(Join(tempDir, name), Clean(tempDir))

\* ------------------------------------------------------- platform resolver
GOOS == {"windows", "linux", "darwin", "freebsd"}

\* A file name is the sequence obtained by splitting it at ".": archiveName
\* is the last path element of downloadURLTemplate.
getPlatformConfig(os) ==
  CASE os = "windows" ->
         [archiveName |-> <<"ollama-windows-amd64", "zip">>,
          tempFileName |-> <<"ollama", "zip">>,
          installPath |-> <<"~", "AppData", "Local", "Programs", "Ollama", "ollama.exe">>,
          binaryName |-> "ollama.exe"]
    [] os = "linux" ->
         [archiveName |-> <<"ollama-linux-amd64", "tgz">>,
          tempFileName |-> <<"ollama", "tgz">>,
          installPath |-> <<"~", "bin", "ollama">>, binaryName |-> "ollama"]
    [] os = "darwin" ->
         [archiveName |-> <<"ollama-darwin", "zip">>,
          tempFileName |-> <<"ollama", "zip">>,
          installPath |-> <<"~", "bin", "ollama">>, binaryName |-> "ollama"]
    [] OTHER ->
         [archiveName |-> <<"ollama-linux-amd64", "tgz">>,
          tempFileName |-> <<"ollama", "tgz">>,
          installPath |-> <<"~", "bin", "ollama">>, binaryName |-> "ollama"]

\* strings.HasSuffix(config.tempFileName, ".zip") of extractAndInstall
FormatOf(config) ==
  IF config.tempFileName[Len(config.tempFileName)] = "zip" THEN "zip" ELSE "tgz"

Formats == {"zip", "tgz"}

\* ------------------------------------------------------------------ archives
EntryNames ==
  { <<"ollama">>, <<"ollama.exe">>, <<"bin", "ollama">>, <<"bin">>,
    <<"bin", "..", "..", "ollama">>, <<"", "etc", "ollama">> }

\* "reg": regular file; "dir": directory; "other": any other kind (symbolic
\* link, device, ...).
EntryTypes == {"reg", "dir", "other"}

Entries == [name : EntryNames, type : EntryTypes]

ArchivesUpTo(n) == UNION { [1..k -> Entries] : k \in 0..n }

Archives == ArchivesUpTo(MaxEntries)

\* What the environment does to the file operations of one entry.
Faults == {"none", "read", "mkdir", "create", "copy"}

\* --------------------------------------------------------------- file system
\* x.dirs, x.files: the directories and files that exist; x.touched: the
\* paths the running extractor has created or written.
Ancestors(p) == { SubSeq(p, 1, k) : k \in 1..Len(p) }

\* os.MkdirAll fails when a component of the path is a file.
MkdirAllOK(x, p) == Ancestors(p) \cap x.files = {}

MkdirAllDo(x, p) ==
  [x EXCEPT !.dirs = @ \cup Ancestors(p),
            !.touched = @ \cup (Ancestors(p) \ x.dirs)]

\* os.OpenFile(path, O_WRONLY|O_CREATE|O_TRUNC) fails on a directory.
OpenFileOK(x, p) == p \notin x.dirs

OpenFileDo(x, p) ==
  [x EXCEPT !.files = @ \cup {p}, !.touched = @ \cup {p}]

\* ------------------------------------------------------------- the extractors
\* The state of one extraction pass: the file system, the indices of the
\* entries the traversal guard skipped, the local binaryPath (<<>> is "") and
\* the status ("running", or "ioerr" once an error return was taken).
NewPass(tempDir) ==
  [dirs |-> Ancestors(tempDir), files |-> {}, touched |-> {}, skipped |-> {},
   binaryPath |-> <<>>, status |-> "running"]

Fail(x) == [x EXCEPT !.status = "ioerr"]

\* A matching rule that accepts only the nested layout: used to show that
\* the binary-matching claim rests on the base-name rule.
TarMatchesNestedOnly(path) == HasSuffixBinOllama(path)

TarMatches(path) == HasSuffixBinOllama(path) \/ Base(path) = "ollama"

ZipMatches(path, binaryName) == Base(path) = binaryName

\* Create the parent directories, create the file and copy the content into
\* it: the part the two extractors share.
WriteFile(x, path, fault) ==
  IF fault = "mkdir" \/ ~MkdirAllOK(x, Dir(path)) THEN Fail(x)
  ELSE LET x1 == MkdirAllDo(x, Dir(path)) IN
       IF fault = "create" \/ ~OpenFileOK(x1, path) THEN Fail(x1)
       ELSE IF fault = "copy" THEN Fail(OpenFileDo(x1, path))
            ELSE OpenFileDo(x1, path)

\* One iteration of the loop of extractZip over entry number i.
ZipEntry(x, i, e, tempDir, binaryName, fault) ==
  LET path == Join(tempDir, e.name) IN
  IF ~Guard(tempDir, e.name) THEN [x EXCEPT !.skipped = @ \cup {i}]
  ELSE IF e.type = "dir"
       THEN IF fault = "mkdir" \/ ~MkdirAllOK(x, path)
            THEN x                       \* the error of os.MkdirAll is dropped
            ELSE MkdirAllDo(x, path)
       ELSE IF fault = "read" THEN Fail(MkdirAllDo(x, Dir(path)))   \* file.Open
            ELSE LET w == WriteFile(x, path, fault) IN
                 IF w.status = "running" /\ ZipMatches(path, binaryName)
                 THEN [w EXCEPT !.binaryPath = path]
                 ELSE w

\* One iteration of the loop of extractTarGz over entry number i.
TarEntry(x, i, e, tempDir, fault) ==
  LET path == Join(tempDir, e.name) IN
  IF fault = "read" THEN Fail(x)         \* tarReader.Next
  ELSE IF ~Guard(tempDir, e.name) THEN [x EXCEPT !.skipped = @ \cup {i}]
  ELSE IF e.type = "dir"
       THEN IF fault = "mkdir" \/ ~MkdirAllOK(x, path)
            THEN Fail(x)
            ELSE MkdirAllDo(x, path)
       ELSE IF e.type = "reg"
            THEN LET w == WriteFile(x, path, fault) IN
                 IF w.status = "running" /\ TarMatches(path)
                 THEN [w EXCEPT !.binaryPath = path]
                 ELSE w
            ELSE x

\* An extractor that returns an error at an entry the traversal guard
\* rejects: used to show that the skip claim rests on the "continue".
EntryStepFailsOnTraversal(fmt, x, i, e, tempDir, binaryName, fault) ==
  IF ~Guard(tempDir, e.name) THEN Fail(x)
  ELSE IF fmt = "zip" THEN ZipEntry(x, i, e, tempDir, binaryName, fault)
       ELSE TarEntry(x, i, e, tempDir, fault)

EntryStep(fmt, x, i, e, tempDir, binaryName, fault) ==
  IF fmt = "zip" THEN ZipEntry(x, i, e, tempDir, binaryName, fault)
  ELSE TarEntry(x, i, e, tempDir, fault)

\* The return value of an extractor after its loop.
PassResult(x) ==
  IF x.status = "ioerr" THEN "ioerr"
  ELSE IF x.binaryPath = <<>> THEN "notfound" ELSE "ok"

\* A whole pass of an extractor over the archive a, entry by entry; the file
\* operations of entry number faultAt (0: of none) are made to fail.
RunPass(fmt, a, binaryName, faultAt) ==
  LET pass[i \in 0..Len(a)] ==
        IF i = 0 THEN NewPass(TempDir)
        ELSE LET prev == pass[i - 1] IN
             IF prev.status = "ioerr" THEN prev
             ELSE EntryStep(fmt, prev, i, a[i], TempDir, binaryName,
                            IF i = faultAt THEN "create" ELSE "none")
  IN pass[Len(a)]

\* The archives the download endpoint serves to the installer.
PipeEntryNames ==
  { <<"ollama">>, <<"ollama.exe">>, <<"bin", "ollama">>, <<"bin", "..", "..", "ollama">> }

PipeArchives ==
  UNION { [1..k -> [name : PipeEntryNames, type : EntryTypes]] : k \in 0..PipeMaxEntries }

\* What the extractor fmt can return to extractAndInstall, over every archive
\* served and every place of a failure.
PassOutcomes(fmt, binaryName) ==
  { LET x == RunPass(fmt, ak[1], binaryName, ak[2])
    IN [status |-> PassResult(x),
        path |-> IF PassResult(x) = "ok" THEN x.binaryPath ELSE <<>>] :
    ak \in PipeArchives \X (0..PipeMaxEntries) }

ZipOutcomes == PassOutcomes("zip", "ollama")

ZipExeOutcomes == PassOutcomes("zip", "ollama.exe")

TarOutcomes == PassOutcomes("tgz", "ollama")

PipeOutcomes(config) ==
  IF FormatOf(config) = "tgz" THEN TarOutcomes
  ELSE IF config.binaryName = "ollama" THEN ZipOutcomes ELSE ZipExeOutcomes

\* ----------------------------------------------------- the Unix PATH updater
\* A shell configuration file is absent, or a sequence of lines: "export" is
\* a line that contains the export statement, "long" a line longer than the
\* 64 KiB token limit of bufio.Scanner, "other" any other line.  Lines are
\* taken to be terminated, so the appended "\n" + statement + "\n" adds an
\* empty line and the statement.
LineKinds == {"export", "long", "other"}

\* A preference order with .bashrc first: used to show that the order claim
\* rests on the list of candidates.
configFilesBashrcFirst == <<".bashrc", ".zshrc", ".bash_profile", ".profile">>

configFiles == <<".zshrc", ".bash_profile", ".bashrc", ".profile">>

ConfigFileSet == {".zshrc", ".bash_profile", ".bashrc", ".profile"}

Absent == [exists |-> FALSE, lines |-> <<>>]

SeqsUpTo(S, n) == UNION { [1..k -> S] : k \in 0..n }

FileStates(n) == {Absent} \cup { [exists |-> TRUE, lines |-> l] : l \in SeqsUpTo(LineKinds, n) }

RECURSIVE TotalLines(_, _)
TotalLines(c, i) ==
  IF i > Len(configFiles) THEN 0
  ELSE Len(c[configFiles[i]].lines) + TotalLines(c, i + 1)

\* The states of the four files with at most n lines in all.
CfgStates(n) == { c \in [ConfigFileSet -> FileStates(n)] : TotalLines(c, 1) <= n }

\* scanner.Scan() delivers the lines up to the first over-long one, where it
\* stops with an error the caller does not look at.
ScanFinds(lines) ==
  \E i \in 1..Len(lines) :
    lines[i] = "export" /\ \A j \in 1..(i - 1) : lines[j] # "long"

\* pathAlreadyExists: false when the file cannot be opened.
pathAlreadyExists(file, canOpen) == file.exists /\ canOpen /\ ScanFinds(file.lines)

fileExists(file) == file.exists

\* The candidate is passed over without an append attempt.
SkipsCandidate(name, file) == name = ".zshrc" /\ ~fileExists(file)

AppendOutcomes == {"ok", "openFails", "writeFails"}

\* appendToFile: O_APPEND|O_CREATE creates the file; a failed write leaves
\* the lines as they were.
appendToFile(file, out) ==
  CASE out = "openFails" -> file
    [] out = "writeFails" -> [exists |-> TRUE, lines |-> file.lines]
    [] OTHER -> [exists |-> TRUE, lines |-> file.lines \o <<"other", "export">>]

\* -------------------------------------------------- the Windows PATH updater
\* A PATH value is the sequence of its entries (the value split at ";"), an
\* entry the sequence of the components of a directory path.
WinBinDir == HomeDir \o <<"bin">>

WinPathDirs == { HomeDir \o <<"bin">>, HomeDir \o <<"bin", "tools">>, <<"windows">> }

PathValues == UNION { [1..k -> WinPathDirs] : k \in 0..WinMaxEntries }

\* strings.Contains(value, dir), and -like "*dir*" of the script: dir holds
\* no ";", so an occurrence lies inside one entry.
Contains(value, dir) ==
  \E i \in 1..Len(value) :
    \E k \in 1..Len(value[i]) :
      k + Len(dir) - 1 <= Len(value[i]) /\ SubSeq(value[i], k, k + Len(dir) - 1) = dir

\* The PowerShell script on the user-scope value: the directory and ";" are
\* put in front of a value that does not contain it.
PsScript(currentPath, dir) ==
  IF ~Contains(currentPath, dir) THEN <<dir>> \o currentPath ELSE currentPath

\* ---------------------------------------------------- release metadata, exit
Responses == {"neterr", "status404", "undecodable", "noTagName", "tagName"}

\* getLatestOllamaVersion on the response of the metadata endpoint.
getLatestOllamaVersion(resp) ==
  [err |-> resp \in {"neterr", "status404", "undecodable"},
   version |-> IF resp = "tagName" THEN "v0.5.1" ELSE ""]

\* getDownloadURL: the template with the version substituted.
getDownloadURL(os, ver) == [version |-> ver, archive |-> getPlatformConfig(os).archiveName]

\* The earlier revisions return from main without an exit status.
ExitStatusAlwaysZero(err) == IF err THEN 0 ELSE 0

\* main: os.Exit(1) on an error, else the end of main.
ExitStatus(err) == IF err THEN 1 ELSE 0

\* A PATH update whose error is returned as an installation failure.
PathErrorFatal(err) == IF err THEN "updatePath" ELSE "none"

\* installOllama after updatePath: the error is printed as a warning.
PathError(err) == "none"

\* An install path under ~/bin on every platform, as the first revision
\* has it: used to show that the consistency claim rests on the platform
\* branch of installOllama.
FinalPathUnderBin(os) == HomeDir \o <<"bin">> \o <<getPlatformConfig(os).binaryName>>

\* The final install path of installOllama.
FinalPath(os) ==
  IF os = "windows"
  THEN HomeDir \o <<"AppData", "Local", "Programs", "Ollama">> \o <<getPlatformConfig(os).binaryName>>
  ELSE HomeDir \o <<"bin">> \o <<getPlatformConfig(os).binaryName>>

\* ------------------------------------------------------------------- state
VARIABLES
  goos,        \* runtime.GOOS
  pc,          \* position of the installer
  metaResp,    \* response of the release-metadata endpoint ("none": not asked)
  version,     \* version of main
  url,         \* url of main (version and archive name)
  dlStatus,    \* HTTP status the download received (0: no response)
  exitCode,    \* exit status of the process (2: still running)
  tempFile,    \* the temp archive file exists
  tempDir,     \* the scratch extraction directory exists
  binDir,      \* the install directory exists
  log,         \* the stages started so far, in order
  failed,      \* the stage whose error is being returned ("none": none)
  defers,      \* the deferred cleanups of installOllama, in order of registration
  cleaned,     \* the deferred cleanups that have run
  archive,     \* entries of the archive the open reader delivers
  xfmt,        \* extractor that is running ("none": none)
  xidx,        \* index of the next entry of its loop
  xs,          \* state of the running pass
  xfault,      \* an injected file-system failure hit the running pass
  results,     \* per extractor: what its pass returned and did
  sourcePath,  \* sourcePath of extractAndInstall
  installed,   \* content at the final install path
  execBit,     \* the install path has its executable bits set
  cfg,         \* the shell configuration files
  cfg0,        \* the files when the running updateUnixPath was called
  ppc,         \* position of updateUnixPath
  pidx,        \* index of the candidate of its running loop
  perr,        \* what updateUnixPath returned ("none": not yet)
  tried,       \* candidates whose append attempt failed in this call
  appended,    \* candidate this call appended to ("none": none)
  runs,        \* calls of updateUnixPath so far
  faulty,      \* a file operation of the PATH updater was made to fail
  procPath,    \* PATH in the environment of the process
  userPath,    \* the persistent user-scope PATH value
  userPath0,   \* the user-scope value when updateWindowsPath was called
  wpc,         \* position of updateWindowsPath
  wret,        \* what updateWindowsPath returned ("none": not yet)
  requests     \* the HTTP requests issued so far: endpoint and success

ivars == <<goos, requests, metaResp, version, url, dlStatus, exitCode, tempFile, tempDir,
           binDir, defers, cleaned>>

svars == <<pc, log, failed>>

xvars == <<archive, xfmt, xidx, xs, xfault, results>>

bvars == <<sourcePath, installed, execBit>>

wvars == <<procPath, userPath, userPath0, wpc, wret>>

pvars == <<cfg, cfg0, ppc, pidx, perr, tried, appended, runs, faulty, wvars>>

vars == <<ivars, svars, xvars, bvars, pvars>>

Pending ==
  [status |-> "pending", path |-> <<>>, skipped |-> {}, fault |-> FALSE]

Returned(x, flt) ==
  [status |-> PassResult(x), path |-> IF PassResult(x) = "ok" THEN x.binaryPath ELSE <<>>,
   skipped |-> x.skipped, fault |-> flt]

Config == getPlatformConfig(goos)

\* The strategy extractAndInstall dispatches to on this platform.
Dispatched(fmt) == fmt = FormatOf(Config)

\* A stage whose error is recorded but not returned: used to show that the
\* order claim rests on the error returns.
StageEndsGoesOn(stage, ok, next) ==
  /\ pc' = next
  /\ failed' = IF ok THEN failed ELSE stage

\* A stage ends: the next stage, or the error return of installOllama.
StageEnds(stage, ok, next) ==
  /\ pc' = IF ok THEN next ELSE "return"
  /\ failed' = IF ok THEN failed ELSE stage

\* ------------------------------------------- extractAndInstall, entry by entry
\* After an extractor returned: extractAndInstall goes on to copyFile, or
\* returns the error.
AfterExtract(fmt, res) ==
  IF Dispatched(fmt)
  THEN /\ StageEnds("extract", res.status = "ok", "copy")
       /\ sourcePath' = res.path
  ELSE UNCHANGED <<pc, failed, sourcePath>>

\* extractAndInstall up to the open archive: the scratch directory is
\* removed and created again, then the extractor opens the archive.  The
\* other extractor may first be run on the same archive, with no injected
\* failure, when the binary name is the one extractTarGz has built in.
ExtractStart(fmt) ==
  /\ pc = "extract"
  /\ xfmt = "none"
  /\ results[fmt].status = "pending"
  /\ Dispatched(fmt) \/ Config.binaryName = "ollama"
  /\ log' = IF Dispatched(fmt) THEN Append(log, "extract") ELSE log
  /\ \E opened \in IF Dispatched(fmt) THEN BOOLEAN ELSE {TRUE} :
       IF opened
       THEN /\ xfmt' = fmt
            /\ xidx' = 1
            /\ xs' = NewPass(TempDir)
            /\ xfault' = FALSE
            /\ UNCHANGED <<results, pc, failed, sourcePath>>
       ELSE /\ results' = [results EXCEPT ![fmt] = Returned(Fail(NewPass(TempDir)), TRUE)]
            /\ AfterExtract(fmt, results'[fmt])
            /\ UNCHANGED <<xfmt, xidx, xs, xfault>>
  /\ tempDir' = TRUE
  /\ UNCHANGED <<goos, requests, metaResp, version, url, dlStatus, exitCode, tempFile, binDir,
                 defers, cleaned, archive, installed, execBit, pvars>>

\* One entry of the running extractor; an error return ends the pass.
ExtractEntry ==
  /\ xfmt # "none"
  /\ xidx <= Len(archive)
  /\ \E fault \in IF Dispatched(xfmt) THEN Faults ELSE {"none"} :
       LET x == EntryStep(xfmt, xs, xidx, archive[xidx], TempDir, Config.binaryName, fault)
           flt == xfault \/ fault # "none"
       IN IF x.status = "ioerr"
          THEN /\ results' = [results EXCEPT ![xfmt] = Returned(x, flt)]
               /\ AfterExtract(xfmt, results'[xfmt])
               /\ xfmt' = "none"
               /\ xidx' = 0
               /\ xs' = x
               /\ xfault' = FALSE
          ELSE /\ xs' = x
               /\ xidx' = xidx + 1
               /\ xfault' = flt
               /\ UNCHANGED <<results, xfmt, pc, failed, sourcePath>>
  /\ UNCHANGED <<ivars, log, archive, installed, execBit, pvars>>

\* The end of the loop: binary-not-found, or the recorded path.
ExtractFinish ==
  /\ xfmt # "none"
  /\ xidx > Len(archive)
  /\ results' = [results EXCEPT ![xfmt] = Returned(xs, xfault)]
  /\ AfterExtract(xfmt, results'[xfmt])
  /\ xfmt' = "none"
  /\ xidx' = 0
  /\ xfault' = FALSE
  /\ UNCHANGED <<ivars, log, archive, xs, installed, execBit, pvars>>

\* copyFile(sourcePath, finalPath)
CopyFile ==
  /\ pc = "copy"
  /\ log' = Append(log, "copy")
  /\ \E out \in {"openFails", "createFails", "copyFails", "ok"} :
       /\ installed' = CASE out = "ok" -> "new"
                         [] out = "copyFails" -> "partial"
                         [] OTHER -> installed
       /\ execBit' = IF out \in {"ok", "copyFails"} /\ installed = "none"
                     THEN FALSE ELSE execBit
       /\ StageEnds("copy", out = "ok", "chmod")
  /\ UNCHANGED <<ivars, xvars, sourcePath, pvars>>

\* os.Chmod(finalPath, executableMode)
Chmod ==
  /\ pc = "chmod"
  /\ log' = Append(log, "chmod")
  /\ \E ok \in BOOLEAN :
       /\ execBit' = (ok \/ execBit)
       /\ StageEnds("chmod", ok, "updatePath")
  /\ UNCHANGED <<ivars, xvars, sourcePath, installed, pvars>>

\* --------------------------------------------------- updateUnixPath, by steps
\* The first loop: pathAlreadyExists on the candidate pidx.
PathScan ==
  /\ ppc = "scan"
  /\ LET name == configFiles[pidx] IN
     \E canOpen \in IF cfg[name].exists THEN BOOLEAN ELSE {FALSE} :
       /\ faulty' = (faulty \/ (cfg[name].exists /\ ~canOpen))
       /\ IF pathAlreadyExists(cfg[name], canOpen)
          THEN /\ ppc' = "done"
               /\ perr' = "ok"
               /\ pidx' = pidx
          ELSE /\ ppc' = IF pidx < Len(configFiles) THEN "scan" ELSE "append"
               /\ pidx' = IF pidx < Len(configFiles) THEN pidx + 1 ELSE 1
               /\ perr' = perr
  /\ UNCHANGED <<ivars, svars, xvars, bvars, cfg, cfg0, tried, appended, runs, wvars>>

\* The candidate pidx of the second loop is done without success: the next
\* one, or the error return after the last.
NextCandidate ==
  /\ ppc' = IF pidx < Len(configFiles) THEN "append" ELSE "done"
  /\ pidx' = IF pidx < Len(configFiles) THEN pidx + 1 ELSE pidx
  /\ perr' = IF pidx < Len(configFiles) THEN perr ELSE "err"

\* The second loop: the skip rule and appendToFile on the candidate pidx.
PathAppend ==
  /\ ppc = "append"
  /\ LET name == configFiles[pidx] IN
     IF SkipsCandidate(name, cfg[name])
     THEN /\ NextCandidate
          /\ UNCHANGED <<cfg, tried, appended, faulty>>
     ELSE \E out \in AppendOutcomes :
            /\ cfg' = [cfg EXCEPT ![name] = appendToFile(@, out)]
            /\ IF out = "ok"
               THEN /\ ppc' = "done"
                    /\ perr' = "ok"
                    /\ pidx' = pidx
                    /\ appended' = name
                    /\ UNCHANGED <<tried, faulty>>
               ELSE /\ NextCandidate
                    /\ tried' = tried \cup {name}
                    /\ faulty' = TRUE
                    /\ appended' = appended
  /\ UNCHANGED <<ivars, svars, xvars, bvars, cfg0, runs, wvars>>

\* updateUnixPath is called again on the files as they are now.
PathRerun ==
  /\ ppc = "done"
  /\ runs < MaxRuns
  /\ ppc' = "scan"
  /\ pidx' = 1
  /\ perr' = "none"
  /\ tried' = {}
  /\ appended' = "none"
  /\ cfg0' = cfg
  /\ runs' = runs + 1
  /\ UNCHANGED <<ivars, svars, xvars, bvars, cfg, faulty, wvars>>

\* ------------------------------------------------------- updateWindowsPath
\* The whole call: the test of the PATH of the process, then the script,
\* which may fail to run.
UpdateWindowsPath ==
  /\ wpc = "call"
  /\ wpc' = "done"
  /\ IF Contains(procPath, WinBinDir)
     THEN /\ wret' = "ok"
          /\ userPath' = userPath
     ELSE \E ran \in BOOLEAN :
            /\ wret' = IF ran THEN "ok" ELSE "err"
            /\ userPath' = IF ran THEN PsScript(userPath, WinBinDir) ELSE userPath
  /\ UNCHANGED <<ivars, svars, xvars, bvars, cfg, cfg0, ppc, pidx, perr, tried, appended,
                 runs, faulty, procPath, userPath0>>

\* ------------------------------------------------------------- the installer
\* A fetch that asks the metadata endpoint once more after a failure: used
\* to show that the no-retry claim rests on the single request of the code.
FetchVersionRetries ==
  /\ pc = "main"
  /\ log' = Append(log, "fetch")
  /\ \E resp \in Responses :
       LET r == getLatestOllamaVersion(resp) IN
       /\ metaResp' = resp
       /\ requests' = Append(requests, [to |-> "metadata",
                                        ok |-> resp \notin {"neterr", "status404"}])
       /\ version' = r.version
       /\ failed' = IF r.err /\ requests # <<>> THEN "fetch" ELSE failed
       /\ pc' = IF r.err THEN (IF requests = <<>> THEN "main" ELSE "exit") ELSE "buildURL"
  /\ UNCHANGED <<goos, url, dlStatus, exitCode, tempFile, tempDir, binDir, defers,
                 cleaned, xvars, bvars, pvars>>

\* main: getLatestOllamaVersion, which issues one request, and os.Exit(1) on
\* its error.
FetchVersion ==
  /\ pc = "main"
  /\ log' = Append(log, "fetch")
  /\ \E resp \in Responses :
       LET r == getLatestOllamaVersion(resp) IN
       /\ metaResp' = resp
       /\ requests' = Append(requests, [to |-> "metadata",
                                        ok |-> resp \notin {"neterr", "status404"}])
       /\ version' = r.version
       /\ failed' = IF r.err THEN "fetch" ELSE failed
       /\ pc' = IF r.err THEN "exit" ELSE "buildURL"
  /\ UNCHANGED <<goos, url, dlStatus, exitCode, tempFile, tempDir, binDir, defers,
                 cleaned, xvars, bvars, pvars>>

\* main: getDownloadURL
BuildURL ==
  /\ pc = "buildURL"
  /\ log' = Append(log, "buildURL")
  /\ url' = getDownloadURL(goos, version)
  /\ pc' = "install"
  /\ UNCHANGED <<goos, requests, metaResp, version, dlStatus, exitCode, tempFile, tempDir, binDir,
                 defers, cleaned, failed, xvars, bvars, pvars>>

\* installOllama: os.UserHomeDir, then the cleanup of the temp file is deferred.
InstallStart ==
  /\ pc = "install"
  /\ \E home \in BOOLEAN :
       /\ defers' = IF home THEN Append(defers, "tempFile") ELSE defers
       /\ StageEnds("homeDir", home, "download")
  /\ UNCHANGED <<goos, requests, metaResp, version, url, dlStatus, exitCode, tempFile, tempDir,
                 binDir, cleaned, log, xvars, bvars, pvars>>

\* downloadFile: the request, the status check, os.Create and io.Copy.
Download ==
  /\ pc = "download"
  /\ log' = Append(log, "download")
  /\ \E out \in {"neterr", "status404", "createFails", "copyFails", "ok"} :
       /\ dlStatus' = CASE out = "neterr" -> 0
                        [] out = "status404" -> 404
                        [] OTHER -> 200
       /\ requests' = Append(requests, [to |-> "download",
                                        ok |-> out \notin {"neterr", "status404"}])
       /\ tempFile' = (tempFile \/ out \in {"copyFails", "ok"})
       /\ StageEnds("download", out = "ok", "mkdirBin")
  /\ UNCHANGED <<goos, metaResp, version, url, exitCode, tempDir, binDir, defers, cleaned,
                 xvars, bvars, pvars>>

\* installOllama: the cleanup of the scratch directory is deferred, then
\* os.MkdirAll(binDir).
MkdirBin ==
  /\ pc = "mkdirBin"
  /\ log' = Append(log, "mkdirBin")
  /\ defers' = Append(defers, "tempDir")
  /\ \E ok \in BOOLEAN :
       /\ binDir' = (binDir \/ ok)
       /\ StageEnds("mkdirBin", ok, "extract")
  /\ UNCHANGED <<goos, requests, metaResp, version, url, dlStatus, exitCode, tempFile, tempDir,
                 cleaned, xvars, bvars, pvars>>

\* An extractAndInstall that creates the file at the final install path
\* before it extracts: used to show that the claim on the install path rests
\* on the copy coming after the extraction.
ExtractAndInstallCreatesFirst ==
  /\ pc = "extract"
  /\ log' = Append(log, "extract")
  /\ installed' = "partial"
  /\ \E pre \in {"mkdirFails", "openFails", "ok"} :
       /\ tempDir' = (pre # "mkdirFails")
       /\ IF pre # "ok"
          THEN /\ StageEnds("extract", FALSE, "copy")
               /\ sourcePath' = <<>>
          ELSE \E r \in PipeOutcomes(Config) :
                 /\ StageEnds("extract", r.status = "ok", "copy")
                 /\ sourcePath' = r.path
  /\ UNCHANGED <<goos, requests, metaResp, version, url, dlStatus, exitCode, tempFile, binDir,
                 defers, cleaned, xvars, execBit, pvars>>

\* extractAndInstall up to the return of the extractor, in one step: the
\* scratch directory is removed and created again, and the dispatched
\* extractor makes its pass over the archive that was downloaded.
ExtractAndInstall ==
  /\ pc = "extract"
  /\ log' = Append(log, "extract")
  /\ \E pre \in IF tempDir THEN {"removeFails", "mkdirFails", "openFails", "ok"}
                ELSE {"mkdirFails", "openFails", "ok"} :
       /\ tempDir' = CASE pre = "removeFails" -> tempDir
                       [] pre = "mkdirFails" -> FALSE
                       [] OTHER -> TRUE
       /\ IF pre # "ok"
          THEN /\ StageEnds("extract", FALSE, "copy")
               /\ sourcePath' = <<>>
          ELSE \E r \in PipeOutcomes(Config) :
                 /\ StageEnds("extract", r.status = "ok", "copy")
                 /\ sourcePath' = r.path
  /\ UNCHANGED <<goos, requests, metaResp, version, url, dlStatus, exitCode, tempFile, binDir,
                 defers, cleaned, xvars, installed, execBit, pvars>>

\* installOllama: updatePath is called on every platform but Windows.
PathStart ==
  /\ pc = "updatePath"
  /\ goos # "windows"
  /\ ppc = "idle"
  /\ log' = Append(log, "updatePath")
  /\ ppc' = "scan"
  /\ pidx' = 1
  /\ cfg0' = cfg
  /\ runs' = runs + 1
  /\ UNCHANGED <<ivars, pc, failed, xvars, bvars, cfg, perr, tried, appended, faulty, wvars>>

\* installOllama: updatePath has returned.
PathEnd ==
  /\ pc = "updatePath"
  /\ ppc = "done"
  /\ failed' = PathError(perr = "err")
  /\ pc' = IF failed' = "none" THEN "report" ELSE "return"
  /\ UNCHANGED <<ivars, log, xvars, bvars, pvars>>

\* installOllama on Windows: the PATH is left alone.
PathSkip ==
  /\ pc = "updatePath"
  /\ goos = "windows"
  /\ pc' = "report"
  /\ UNCHANGED <<ivars, log, failed, xvars, bvars, pvars>>

\* installOllama: the success messages and return nil.
Report ==
  /\ pc = "report"
  /\ log' = Append(log, "report")
  /\ pc' = "return"
  /\ UNCHANGED <<ivars, failed, xvars, bvars, pvars>>

\* installOllama returns: the deferred cleanups run, last registered first.
\* Their errors are dropped; a removal is taken to succeed.
Return ==
  /\ pc = "return"
  /\ cleaned' = { defers[i] : i \in 1..Len(defers) }
  /\ tempDir' = IF "tempDir" \in cleaned' THEN FALSE ELSE tempDir
  /\ tempFile' = IF "tempFile" \in cleaned' THEN FALSE ELSE tempFile
  /\ pc' = "exit"
  /\ UNCHANGED <<goos, requests, metaResp, version, url, dlStatus, exitCode, binDir, defers, log,
                 failed, xvars, bvars, pvars>>

\* main: the exit status of the process.
Exit ==
  /\ pc = "exit"
  /\ exitCode' = ExitStatus(failed # "none")
  /\ pc' = "exited"
  /\ UNCHANGED <<goos, requests, metaResp, version, url, dlStatus, tempFile, tempDir, binDir,
                 defers, cleaned, log, failed, xvars, bvars, pvars>>

\* ------------------------------------------------------------ specifications
\* State of the installer on the way to the stage p, after the stages l.
InstallerAt(p, l) ==
  /\ pc = p
  /\ log = l
  /\ metaResp = "tagName"
  /\ requests = <<[to |-> "metadata", ok |-> TRUE], [to |-> "download", ok |-> TRUE]>>
  /\ version = "v0.5.1"
  /\ url = getDownloadURL(goos, version)
  /\ dlStatus = 200
  /\ exitCode = 2
  /\ tempFile = TRUE
  /\ binDir = TRUE
  /\ failed = "none"
  /\ defers = <<"tempFile", "tempDir">>
  /\ cleaned = {}

NoPass ==
  /\ xfmt = "none"
  /\ xidx = 0
  /\ xs = NewPass(HomeDir)
  /\ xfault = FALSE
  /\ results = [f \in Formats |-> Pending]
  /\ sourcePath = <<>>

NoPathCall ==
  /\ cfg0 = cfg
  /\ ppc = "idle"
  /\ pidx = 1
  /\ perr = "none"
  /\ tried = {}
  /\ appended = "none"
  /\ runs = 0
  /\ faulty = FALSE

NoWinCall ==
  /\ procPath = <<>>
  /\ userPath = <<>>
  /\ userPath0 = <<>>
  /\ wpc = "idle"
  /\ wret = "none"

\* extractAndInstall on every archive, entry by entry, in a first
\* installation, on one platform for each config of getPlatformConfig (an
\* unrecognized one has that of Linux).
InitExtract ==
  /\ goos \in {"windows", "linux", "darwin"}
  /\ InstallerAt("extract", <<"fetch", "buildURL", "download", "mkdirBin">>)
  /\ tempDir = FALSE
  /\ NoPass
  /\ archive \in Archives
  /\ installed = "none"
  /\ execBit = FALSE
  /\ cfg = [f \in ConfigFileSet |-> Absent]
  /\ NoPathCall
  /\ NoWinCall

NextExtract ==
  \/ \E fmt \in Formats : ExtractStart(fmt)
  \/ ExtractEntry
  \/ ExtractFinish
  \/ CopyFile
  \/ Chmod

SpecExtract == InitExtract /\ [][NextExtract]_vars

\* updateUnixPath called MaxRuns times on every state of the files.
InitPath ==
  /\ goos = "linux"
  /\ InstallerAt("updatePath",
                 <<"fetch", "buildURL", "download", "mkdirBin", "extract", "copy",
                   "chmod", "updatePath">>)
  /\ tempDir = TRUE
  /\ NoPass
  /\ archive = <<>>
  /\ installed = "new"
  /\ execBit = TRUE
  /\ cfg \in CfgStates(MaxInitLines)
  /\ cfg0 = cfg
  /\ ppc = "scan"
  /\ pidx = 1
  /\ perr = "none"
  /\ tried = {}
  /\ appended = "none"
  /\ runs = 1
  /\ faulty = FALSE
  /\ NoWinCall

NextPath ==
  \/ PathScan
  \/ PathAppend
  \/ PathRerun

SpecPath == InitPath /\ [][NextPath]_vars

\* updateWindowsPath called on every user-scope PATH value, in a process whose
\* PATH is the machine-scope value followed by the user-scope value.
InitWin ==
  /\ goos = "windows"
  /\ InstallerAt("updatePath",
                 <<"fetch", "buildURL", "download", "mkdirBin", "extract", "copy", "chmod">>)
  /\ tempDir = TRUE
  /\ NoPass
  /\ archive = <<>>
  /\ installed = "new"
  /\ execBit = TRUE
  /\ cfg = [f \in ConfigFileSet |-> Absent]
  /\ NoPathCall
  /\ userPath \in PathValues
  /\ userPath0 = userPath
  /\ procPath \in { machinePath \o userPath : machinePath \in PathValues }
  /\ wpc = "call"
  /\ wret = "none"

NextWin == UpdateWindowsPath

SpecWin == InitWin /\ [][NextWin]_vars

\* One run of the installer, from main to the exit of the process.
Init ==
  /\ goos \in GOOS
  /\ pc = "main"
  /\ log = <<>>
  /\ metaResp = "none"
  /\ requests = <<>>
  /\ version = ""
  /\ url = [version |-> "", archive |-> <<>>]
  /\ dlStatus = 0
  /\ exitCode = 2
  /\ tempFile = FALSE
  /\ tempDir \in BOOLEAN
  /\ installed \in {"none", "old"}
  /\ binDir = (installed = "old")
  /\ execBit = (installed = "old")
  /\ failed = "none"
  /\ defers = <<>>
  /\ cleaned = {}
  /\ NoPass
  /\ archive = <<>>
  /\ cfg \in CfgStates(PipeMaxLines)
  /\ NoPathCall
  /\ NoWinCall

Next ==
  \/ FetchVersion
  \/ BuildURL
  \/ InstallStart
  \/ Download
  \/ MkdirBin
  \/ ExtractAndInstall
  \/ CopyFile
  \/ Chmod
  \/ PathStart
  \/ PathScan
  \/ PathAppend
  \/ PathEnd
  \/ PathSkip
  \/ Report
  \/ Return
  \/ Exit

Spec == Init /\ [][Next]_vars

\* ============================================================ the claims
\* A path that lies inside the target extraction directory.
InsideTarget(p) ==
  /\ Len(p) > Len(TempDir)
  /\ \A k \in 1..Len(TempDir) : p[k] = TempDir[k]
  /\ \A k \in 1..Len(p) : p[k] \notin {"", ".", ".."}

\* The entries whose destination has the expected binary name as base name.
MatchingEntries ==
  { i \in 1..Len(archive) : Base(Join(TempDir, archive[i].name)) = Config.binaryName }

\* The extractor fmt writes entries of this type as files.
WritesAsFile(fmt, type) == type = "reg" \/ (fmt = "zip" /\ type = "other")

NothingCopied == installed \in {"none", "old"} /\ pc \in {"extract", "return"}

\* C1: in every pass of either extractor, over every sequence of entries
\* (names with ".." components and absolute names included), every file or
\* directory the extractor creates or writes lies inside the target
\* directory, and nothing else exists outside it.
C1_NoWriteOutsideTarget ==
  /\ \A p \in xs.touched : InsideTarget(p)
  /\ \A p \in xs.files : InsideTarget(p)
  /\ \A p \in xs.dirs : InsideTarget(p) \/ p \in Ancestors(TempDir)

\* C1 witness: the zip pass skipped a traversal entry and returned, and the
\* tar pass over the same archive has skipped one and written a file.
C1_Witness ==
  /\ results["zip"].status = "ok" /\ results["zip"].skipped # {}
  /\ xfmt = "tgz" /\ xs.skipped # {} /\ xs.files # {}

\* C2 as claimed: in a pass that met no injected failure, exactly one
\* matching entry makes extraction return that entry's path under the target
\* directory, and no matching entry makes it fail with binary-not-found with
\* nothing copied to the install path.
C2_AsClaimed ==
  \A f \in Formats :
    (results[f].status # "pending" /\ ~results[f].fault) =>
      /\ Cardinality(MatchingEntries) = 1 =>
           \E i \in MatchingEntries :
             /\ results[f].status = "ok"
             /\ results[f].path = Join(TempDir, archive[i].name)
      /\ (MatchingEntries = {} /\ Dispatched(f)) =>
           (results[f].status = "notfound" /\ NothingCopied)

\* C2 amended: exactly one matching entry that is written as a file and passes
\* the traversal guard makes extraction return that entry's path under the
\* target directory unless a read or file-system error aborts the pass; no
\* matching entry makes extraction fail, with binary-not-found unless such an
\* error came first, and nothing is copied to the install path.
C2_SingleMatchReturned ==
  \A f \in Formats :
    results[f].status # "pending" =>
      /\ \A i \in MatchingEntries :
           ( /\ MatchingEntries = {i}
             /\ WritesAsFile(f, archive[i].type)
             /\ InsideTarget(Join(TempDir, archive[i].name))
             /\ results[f].status # "ioerr" ) =>
               /\ results[f].status = "ok"
               /\ results[f].path = Join(TempDir, archive[i].name)
      /\ MatchingEntries = {} =>
           /\ results[f].status \in {"notfound", "ioerr"}
           /\ Dispatched(f) => NothingCopied

\* C2 witness: a pass over two entries, one of them the only match, returned
\* its path, and the binary was copied from it.
C2_Witness ==
  /\ Len(archive) = 2 /\ Cardinality(MatchingEntries) = 1
  /\ \E f \in Formats : Dispatched(f) /\ results[f].status = "ok"
  /\ installed = "new"

\* C10 as claimed: over the same entries (regular files and directories),
\* target directory and binary name, with no injected failure, the two
\* extractors skip the same entries and return the same result.
C10_AsClaimed ==
  ( /\ results["zip"].status # "pending" /\ results["tgz"].status # "pending"
    /\ ~results["zip"].fault /\ ~results["tgz"].fault
    /\ \A i \in 1..Len(archive) : archive[i].type \in {"reg", "dir"} ) =>
      /\ results["zip"].skipped = results["tgz"].skipped
      /\ results["zip"].status = results["tgz"].status
      /\ results["zip"].path = results["tgz"].path

\* The file holds a line with the export statement.
HoldsExport(file) == \E i \in 1..Len(file.lines) : file.lines[i] = "export"

HasExport(c) == \E f \in ConfigFileSet : HoldsExport(c[f])

\* The number of lines with the export statement in all candidate files.
RECURSIVE Occurrences(_, _)
Occurrences(c, i) ==
  IF i > Len(configFiles) THEN 0
  ELSE Cardinality({ k \in 1..Len(c[configFiles[i]].lines) :
                       c[configFiles[i]].lines[k] = "export" })
       + Occurrences(c, i + 1)

\* C6 as claimed: a second or later call of updateUnixPath, on files that
\* hold one occurrence of the export line and with no file operation failing,
\* appends nothing and leaves exactly one occurrence.
C6_AsClaimed ==
  (ppc = "done" /\ runs >= 2 /\ ~faulty /\ Occurrences(cfg0, 1) = 1) =>
    (cfg = cfg0 /\ Occurrences(cfg, 1) = 1)

\* C7 as claimed: when a candidate file holds the export line at the call
\* and no file operation fails, updateUnixPath returns success, changes no
\* candidate file and creates none.
C7_AsClaimed ==
  (ppc = "done" /\ ~faulty /\ HasExport(cfg0)) => (perr = "ok" /\ cfg = cfg0)

C8_Preference == <<".zshrc", ".bash_profile", ".bashrc", ".profile">>

C8_ZshrcSkipped == ~cfg0[".zshrc"].exists

\* C8: when no candidate holds the export line, updateUnixPath goes through
\* .zshrc, .bash_profile, .bashrc, .profile in this order, passes over an
\* absent .zshrc without creating it, appends the line to the first candidate
\* whose append succeeds, changes no candidate after it, and returns an error
\* exactly when the append failed for every candidate it tried.
C8_FirstWritableCandidate ==
  (ppc = "done" /\ ~HasExport(cfg0)) =>
    /\ perr \in {"ok", "err"}
    /\ (perr = "err") <=> (appended = "none")
    /\ C8_ZshrcSkipped =>
         (".zshrc" \notin tried /\ appended # ".zshrc" /\ cfg[".zshrc"] = cfg0[".zshrc"])
    /\ \A i \in 1..Len(C8_Preference) :
         appended = C8_Preference[i] =>
           /\ cfg[appended] = [exists |-> TRUE,
                               lines |-> cfg0[appended].lines \o <<"other", "export">>]
           /\ \A j \in 1..(i - 1) :
                /\ C8_Preference[j] \in tried
                     \/ (C8_Preference[j] = ".zshrc" /\ C8_ZshrcSkipped)
                /\ cfg[C8_Preference[j]].lines = cfg0[C8_Preference[j]].lines
           /\ \A j \in (i + 1)..Len(C8_Preference) :
                /\ C8_Preference[j] \notin tried
                /\ cfg[C8_Preference[j]] = cfg0[C8_Preference[j]]
    /\ perr = "err" =>
         /\ tried = ConfigFileSet \ (IF C8_ZshrcSkipped THEN {".zshrc"} ELSE {})
         /\ \A f \in ConfigFileSet : cfg[f].lines = cfg0[f].lines

\* C8 witness: .zshrc is absent and passed over, the append to .bash_profile
\* fails, and the line is appended to .bashrc.
C8_Witness ==
  /\ ppc = "done" /\ ~HasExport(cfg0) /\ C8_ZshrcSkipped
  /\ tried = {".bash_profile"} /\ appended = ".bashrc" /\ perr = "ok"
  /\ ~cfg[".zshrc"].exists

\* The stage s has been started.
InLog(s) == \E i \in 1..Len(log) : log[i] = s

Returning == pc \in {"return", "exit", "exited"}

\* C3 as claimed: when installOllama has returned after the download stage
\* was entered (success, or a failure at any stage from the download on),
\* neither the temp archive file nor the scratch directory exists.
C3_AsClaimed ==
  (pc \in {"exit", "exited"} /\ InLog("download")) => (~tempFile /\ ~tempDir)

C4_Stages == {"fetch", "download", "mkdirBin", "extract", "copy", "chmod"}

\* C4: a stage among fetch-version, download, install-directory creation,
\* extraction, copy and set-permissions that fails is the last stage started
\* and the process exits with status 1; the status is 0 exactly when all six
\* have run without failing; a download that receives 404 never starts the
\* extraction.
C4_FailFast ==
  /\ failed \in C4_Stages => (log[Len(log)] = failed /\ Returning)
  /\ pc = "exited" =>
       /\ exitCode \in {0, 1}
       /\ failed \in C4_Stages => exitCode = 1
       /\ (exitCode = 0) <=> (\A s \in C4_Stages : InLog(s) /\ failed # s)
  /\ dlStatus = 404 => (failed = "download" /\ ~InLog("extract"))

\* C4 witness: the download received 404 and the process has exited with
\* status 1 without starting the extraction.
C4_Witness ==
  pc = "exited" /\ dlStatus = 404 /\ exitCode = 1 /\ ~InLog("extract")

C9_AsClaimed ==
  /\ metaResp \in {"status404", "undecodable", "noTagName"} =>
       (failed = "fetch" /\ pc \in {"exit", "exited"})
  /\ InLog("buildURL") /\ pc # "buildURL" => url.version # ""

\* The extension of a file name.
Ext(name) == name[Len(name)]

\* An install path with the leading "~" replaced by the home directory.
ExpandHome(p) == IF p # <<>> /\ p[1] = "~" THEN HomeDir \o Tail(p) ELSE p

\* C11: on every operating system, the unrecognized ones included,
\* getPlatformConfig returns a config (that of Linux for an unrecognized
\* one) in which binaryName is the last component of installPath and the
\* archive name of the download URL has the extension of tempFileName, and
\* the final install path of installOllama is installPath with "~" replaced
\* by the home directory.
C11_ConfigConsistent ==
  /\ Config \in { getPlatformConfig(os) : os \in {"windows", "linux", "darwin"} }
  /\ goos \notin {"windows", "linux", "darwin"} => Config = getPlatformConfig("linux")
  /\ Base(Config.installPath) = Config.binaryName
  /\ Ext(Config.archiveName) = Ext(Config.tempFileName)
  /\ InLog("buildURL") /\ pc # "buildURL" => Ext(url.archive) = Ext(Config.tempFileName)
  /\ FinalPath(goos) = ExpandHome(Config.installPath)

\* C11 witness: on an unrecognized operating system the binary has been
\* copied to the final install path; and so it has on Windows.
C11_Witness ==
  /\ goos \in {"freebsd", "windows"}
  /\ InLog("copy") /\ installed = "new"
  /\ FinalPath(goos) = ExpandHome(Config.installPath)

\* The directory is one of the entries of the PATH value.
InPath(value, dir) == \E i \in 1..Len(value) : value[i] = dir

\* C12 as claimed: when updateWindowsPath has returned success, the target
\* directory is an entry of the user-scope PATH value, and if it was not one
\* at the call, the value is the target directory put in front of the whole
\* value of before.
C12_AsClaimed ==
  (wpc = "done" /\ wret = "ok") =>
    /\ InPath(userPath, WinBinDir)
    /\ ~InPath(userPath0, WinBinDir) => userPath = <<WinBinDir>> \o userPath0

\* The stages of a complete run, in the order of the claim.
C13_Order ==
  <<"fetch", "buildURL", "download", "mkdirBin", "extract", "copy", "chmod">>
  \o (IF goos # "windows" THEN <<"updatePath">> ELSE <<>>) \o <<"report">>

C13_StartedInOrder ==
  Len(log) <= Len(C13_Order) /\ \A i \in 1..Len(log) : log[i] = C13_Order[i]

\* C13 as claimed: the stages start in the order fetch, build URL, download,
\* install directory, extract, copy, permissions, PATH update (not on
\* Windows), cleanup, report: the report starts only after the cleanups have
\* run, and only after a PATH update that was attempted has succeeded.
C13_AsClaimed ==
  /\ C13_StartedInOrder
  /\ InLog("report") => cleaned = {"tempFile", "tempDir"}
  /\ (InLog("report") /\ InLog("updatePath")) => perr = "ok"

\* C13 amended: the stages start in the order fetch, build URL, download,
\* install directory, extract, copy, permissions, PATH update (not on
\* Windows), report; a stage up to permissions that fails is the last one
\* started; the report starts once an attempted PATH update has returned,
\* with success or not; the deferred cleanups run only when installOllama
\* returns, which on a run without failure is after the report; a run that
\* exits with status 0 went through every stage.
C13_PipelineOrder ==
  /\ C13_StartedInOrder
  /\ failed # "none" =>
       /\ Returning
       /\ log[Len(log)] = IF failed = "homeDir" THEN "buildURL" ELSE failed
  /\ InLog("report") => (failed = "none" /\ (goos # "windows" => perr \in {"ok", "err"}))
  /\ cleaned # {} => pc \in {"exit", "exited"}
  /\ (cleaned # {} /\ failed = "none") => InLog("report")
  /\ (pc = "report" \/ InLog("report")) /\ pc \in {"report", "return"} => cleaned = {}
  /\ (pc = "exited" /\ exitCode = 0) => log = C13_Order

\* C13 witness: a run on Linux went through every stage in order, its PATH
\* update failed, the report was made and then the cleanups ran.
C13_Witness ==
  /\ goos = "linux" /\ pc = "exit" /\ log = C13_Order
  /\ perr = "err" /\ cleaned = {"tempFile", "tempDir"}

\* The entries the traversal guard rejects, and the archive without them.
TraversalEntries == { i \in 1..Len(archive) : ~Guard(TempDir, archive[i].name) }

WithoutTraversal == SelectSeq(archive, LAMBDA e : Guard(TempDir, e.name))

\* Entry i is one the extractor fmt writes as a file inside the target
\* directory and takes for the binary.
ValidBinary(fmt, i) ==
  /\ i \notin TraversalEntries
  /\ WritesAsFile(fmt, archive[i].type)
  /\ IF fmt = "zip" THEN ZipMatches(Join(TempDir, archive[i].name), Config.binaryName)
     ELSE TarMatches(Join(TempDir, archive[i].name))

\* C14: an entry the traversal guard rejects is passed over and the pass
\* goes on.  In a pass with no injected failure the entries skipped are
\* traversal entries, all of them once the pass reached the end; the pass
\* returns what it returns on the archive without the traversal entries;
\* and with a valid binary entry in the archive it returns a path unless a
\* file-system error of another entry ended it.  What a pass returned is
\* looked at when it has returned, before the copy starts.
C14_TraversalSkipped ==
  \A f \in Formats :
    (results[f].status # "pending" /\ ~results[f].fault /\ xfmt = "none" /\ ~InLog("copy")) =>
      LET r == RunPass(f, WithoutTraversal, Config.binaryName, 0) IN
      /\ results[f].skipped \subseteq TraversalEntries
      /\ results[f].status # "ioerr" => results[f].skipped = TraversalEntries
      /\ results[f].status = PassResult(r)
      /\ results[f].status = "ok" => results[f].path = r.binaryPath
      /\ ((\E i \in 1..Len(archive) : ValidBinary(f, i)) /\ results[f].status # "ioerr")
           => results[f].status = "ok"

\* C14 witness: the dispatched pass over a traversal entry followed by a
\* valid binary entry skipped the first and returned the path of the second,
\* which is about to be copied.
C14_Witness ==
  /\ Len(archive) = 2 /\ TraversalEntries = {1}
  /\ \E f \in Formats :
       /\ Dispatched(f) /\ ValidBinary(f, 2)
       /\ results[f].status = "ok" /\ results[f].skipped = {1}
       /\ sourcePath = Join(TempDir, archive[2].name)
  /\ pc = "copy"

\* The requests issued to an endpoint.
RequestsTo(endpoint) == { i \in 1..Len(requests) : requests[i].to = endpoint }

\* C15: in every run at most one request is issued to the release-metadata
\* endpoint and at most one to the download endpoint, the first before the
\* second, and a request that failed is the last request of the run.
C15_NoRetry ==
  /\ Cardinality(RequestsTo("metadata")) <= 1
  /\ Cardinality(RequestsTo("download")) <= 1
  /\ \A i \in 1..Len(requests) :
       /\ requests[i].to \in {"metadata", "download"}
       /\ requests[i].to = "download" => (i = 2 /\ requests[1].to = "metadata")
       /\ ~requests[i].ok => (i = Len(requests) /\ Returning /\ failed \in {"fetch", "download"})
  /\ pc = "exited" => RequestsTo("metadata") # {}

\* C15 witness: a run whose download request failed has exited with status 1
\* after one request to each endpoint.
C15_Witness ==
  /\ pc = "exited" /\ exitCode = 1 /\ failed = "download"
  /\ requests = <<[to |-> "metadata", ok |-> TRUE], [to |-> "download", ok |-> FALSE]>>

C16_EarlyStages == {"fetch", "homeDir", "download", "mkdirBin", "extract"}

\* C16: the file at the final install path and its mode change only in the
\* copy and set-permissions steps, which come after an extraction that
\* returned a matched binary path; when a run fails at the fetch-version,
\* download, install-directory or extraction stage, the file is the one that
\* was there before the run, or still absent.
C16_InstallPathUntouched ==
  [][ /\ (installed' # installed \/ execBit' # execBit) =>
           /\ pc \in {"copy", "chmod"}
           /\ failed = "none"
           /\ sourcePath # <<>>
           /\ log[Len(log)] \in {"extract", "copy"}
      /\ failed' \in C16_EarlyStages =>
           /\ installed' = installed /\ execBit' = execBit
           /\ installed' \in {"none", "old"}
           /\ execBit' = (installed' = "old") ]_vars

\* C16 witness: a run over an installed binary failed at the extraction
\* stage and has exited with status 1, the binary of before still in place.
C16_Witness ==
  /\ pc = "exited" /\ exitCode = 1 /\ failed = "extract" /\ sourcePath = <<>>
  /\ installed = "old" /\ execBit

\* The entries of the given kinds that pass the traversal guard and that
\* the matching rule of the extractor fmt takes for the binary.
MatchesOfKind(fmt, kinds) ==
  { i \in 1..Len(archive) :
      /\ archive[i].type \in kinds
      /\ i \notin TraversalEntries
      /\ IF fmt = "zip" THEN ZipMatches(Join(TempDir, archive[i].name), Config.binaryName)
         ELSE TarMatches(Join(TempDir, archive[i].name)) }

Last(S) == CHOOSE i \in S : \A j \in S : j <= i

\* C17 as claimed: the path a successful extraction returns is the
\* destination, inside the target directory, of a regular-file entry that
\* passed the traversal guard, and of the last such entry that matches.
C17_AsClaimed ==
  \A f \in Formats :
    results[f].status = "ok" =>
      /\ InsideTarget(results[f].path)
      /\ MatchesOfKind(f, {"reg"}) # {}
      /\ results[f].path = Join(TempDir, archive[Last(MatchesOfKind(f, {"reg"}))].name)

====
